---- MODULE Spec2Model ----
(***************************************************************************)
(* Solidity-compatible storage layout of the Fluentbase SDK, as documented *)
(* in docs/fluentbase-sdk/storage.md: the solidity_storage! slot           *)
(* assignment, the storage key calculation of values, mappings and dynamic *)
(* arrays, and the generated get / set / key accessors over a host         *)
(* key-value store of 32-byte slots.                                       *)
(*                                                                         *)
(* 256-bit quantities are kept as 32 big-endian bytes, so additions are    *)
(* exact modulo 2^256.  keccak256 is modelled as a free constructor: the   *)
(* digest of a preimage is the term that records the preimage, hence       *)
(* collision-free.  A 256-bit word is the pair of such a digest (or no     *)
(* digest) and a 256-bit offset added to it.                               *)
(*                                                                         *)
(* A set is the sequence of host writes it issues.  Spec runs the calls    *)
(* one after the other on a testing context; SpecInv runs them inside      *)
(* contract invocations, host write by host write, which return or abort.  *)
(***************************************************************************)
EXTENDS Integers, Sequences, FiniteSets, TLC

VARIABLES decls, schema, store, last, nsets,
          status, checkpoint, pending, intent, ninv

(* the invocation in progress: its status, the host storage as it was    *)
(* when it started, the host writes of its current set not yet issued,   *)
(* the storage its sets so far amount to, and the invocations started    *)
invocation == <<status, checkpoint, pending, intent, ninv>>

vars == <<decls, schema, store, last, nsets, invocation>>

----------------------------------------------------------------------------
(* Bytes and 256-bit words *)

WordSize == 32

AddressSize == 20

ByteBase == 256

Zeros(n) == [i \in 1..n |-> 0]

(* n < 2^24 as len big-endian bytes *)
ToBE(n, len) ==
    [i \in 1..len |-> IF len - i >= 3 THEN 0 ELSE (n \div ByteBase ^ (len - i)) % ByteBase]

(* left-pads (right-aligns) an encoded key or number to one 32-byte slot *)
pad32(bytes) == Zeros(WordSize - Len(bytes)) \o bytes

(* the carry entering byte i when a and b are added: some lower byte *)
(* overflows and every byte between passes the carry on              *)
CarryInto(a, b, i) ==
    IF \E j \in (i + 1)..WordSize :
          /\ a[j] + b[j] >= ByteBase
          /\ \A k \in (i + 1)..(j - 1) : a[k] + b[k] = ByteBase - 1
    THEN 1 ELSE 0

(* a + b that stays at 2^256 - 1 when the sum passes it *)
AddU256Saturating(a, b) ==
    IF CarryInto(a, b, 0) = 1 THEN [i \in 1..WordSize |-> ByteBase - 1]
    ELSE [i \in 1..WordSize |-> (a[i] + b[i] + CarryInto(a, b, i)) % ByteBase]

(* a + b on 32 big-endian bytes, modulo 2^256 *)
AddU256(a, b) ==
    IF \A i \in 1..WordSize : a[i] + b[i] < ByteBase
    THEN [i \in 1..WordSize |-> a[i] + b[i]]
    ELSE [i \in 1..WordSize |-> (a[i] + b[i] + CarryInto(a, b, i)) % ByteBase]

(* a < b on 32 big-endian bytes *)
LtU256(a, b) ==
    \E i \in 1..WordSize :
        /\ a[i] < b[i]
        /\ \A j \in 1..(i - 1) : a[j] = b[j]

(* the borrow entering byte i when b is subtracted from a *)
BorrowInto(a, b, i) ==
    IF \E j \in (i + 1)..WordSize :
          /\ a[j] < b[j]
          /\ \A k \in (i + 1)..(j - 1) : a[k] = b[k]
    THEN 1 ELSE 0

(* a - b on 32 big-endian bytes, modulo 2^256 *)
SubU256(a, b) ==
    [i \in 1..WordSize |-> (a[i] - b[i] - BorrowInto(a, b, i) + ByteBase) % ByteBase]

(* a plain 256-bit number: no digest, only the offset *)
Plain(bytes) == [pre |-> <<>>, off |-> pad32(bytes)]

(* U256::from(n) *)
U(n) == Plain(ToBE(n, WordSize))

(* keccak256 of the concatenation of the 32-byte words ws *)
keccak256(ws) == [pre |-> ws, off |-> Zeros(WordSize)]

(* w + i, 256-bit addition *)
AddWord(w, i) == [pre |-> w.pre, off |-> AddU256(w.off, i)]

(* the 32 bytes of the StorageKey a word is handed to the host as, h being *)
(* the 32 bytes keccak256 yields for its preimage: the digest plus the     *)
(* offset, 256-bit addition                                                *)
HostKey(w, h) == IF w.pre = <<>> THEN w.off ELSE AddU256(h, w.off)

----------------------------------------------------------------------------
(* Declarations: solidity_storage! { ... } *)

(* One declaration: its key path (one component per mapping level or array *)
(* dimension, outermost first) and its value type.                         *)
Decl(path, vtype) == [path |-> path, vtype |-> vtype]

Owner == Decl(<<>>, "Address")
Paused == Decl(<<>>, "bool")
TotalSupply == Decl(<<>>, "U256")
Small1 == Decl(<<>>, "u8")
Small2 == Decl(<<>>, "u8")
Large == Decl(<<>>, "U256")
Balance == Decl(<<"mapA">>, "U256")
Allowance == Decl(<<"mapA", "mapA">>, "U256")
Metadata == Decl(<<"mapU">>, "Bytes")
Values == Decl(<<"arr">>, "U256")
NestedArr == Decl(<<"arr", "arr", "arr">>, "Address")
CurrentUser == Decl(<<>>, "UserProfile")
Profiles == Decl(<<"mapA">>, "UserProfile")

(* Declarations the documentation does not name, of shapes it describes *)
Grid == Decl(<<"arr", "arr">>, "U256")
Ledger == Decl(<<"mapA", "arr">>, "U256")
Pairs == Decl(<<"mapU", "mapU">>, "U256")
Triples == Decl(<<"mapU", "mapU", "mapU">>, "bool")
Note == Decl(<<>>, "Bytes")
Verified == Decl(<<>>, "Flag")
(* Bytes[] Messages: a dynamic array whose elements take the codec *)
Messages == Decl(<<"arr">>, "Bytes")

(* Bytes a type occupies when it is stored directly; 0 for the types that *)
(* need the codec (structs, Bytes)                                        *)
DirectWidth(vtype) ==
    CASE vtype = "bool" -> 1
      [] vtype = "u8" -> 1
      [] vtype = "Address" -> AddressSize
      [] vtype = "U256" -> WordSize
      [] OTHER -> 0

(* Direct Storage: used for types <= 32 bytes *)
IsDirect(vtype) == DirectWidth(vtype) > 0

Entry(d, slot) == [path |-> d.path, vtype |-> d.vtype, slot |-> slot]

RECURSIVE AssignFrom(_, _)
(* the declarations ds take the slots n, n + 1, ... in declaration order *)
AssignFrom(ds, n) ==
    IF ds = <<>> THEN <<>>
    ELSE <<Entry(Head(ds), U(n))>> \o AssignFrom(Tail(ds), n + 1)

RECURSIVE PackFrom(_, _, _)
(* Solidity's own layout: a small value shares the last slot while it fits *)
PackFrom(ds, n, room) ==
    IF ds = <<>> THEN <<>>
    ELSE LET d == Head(ds)
             w == IF d.path = <<>> /\ IsDirect(d.vtype)
                  THEN DirectWidth(d.vtype) ELSE WordSize
         IN  IF w <= room
             THEN <<Entry(d, U(n - 1))>> \o PackFrom(Tail(ds), n, room - w)
             ELSE <<Entry(d, U(n))>> \o PackFrom(Tail(ds), n + 1, WordSize - w)

solidity_storage_packed(ds) == PackFrom(ds, 0, 0)

(* solidity_storage! { ds }: the schema, one entry per declaration *)
solidity_storage(ds) == AssignFrom(ds, 0)

----------------------------------------------------------------------------
(* Storage key calculation *)

ValueKeyHashed(slot) == keccak256(<<slot>>)

(* simple value: key = slot_number *)
ValueKey(slot) == slot

MappingKeySlotFirst(k, p) == keccak256(<<p, Plain(k)>>)

(* the mapping key left out of the hash *)
MappingKeySlotOnly(k, p) == keccak256(<<p>>)

(* simple mapping: key = keccak256(h(k) . p) *)
MappingKey(k, p) == keccak256(<<Plain(k), p>>)

ArrayKeyHashedSum(p, i) == keccak256(<<AddWord(p, pad32(i))>>)

(* dynamic array: the element at index i is at keccak256(slot) + i *)
ArrayKey(p, i) == AddWord(keccak256(<<p>>), pad32(i))

RECURSIVE FoldMappingsFrom(_, _, _)
FoldMappingsFrom(slot, cur, ks) ==
    IF ks = <<>> THEN cur
    ELSE FoldMappingsFrom(slot, MappingKey(Head(ks), slot), Tail(ks))

(* every level hashed with the base slot instead of the level before *)
FoldMappingsUnchained(cur, ks) == FoldMappingsFrom(cur, cur, ks)

RECURSIVE FoldMappingsInnermostFirst(_, _)
(* the mapping keys consumed from the last to the first *)
FoldMappingsInnermostFirst(cur, ks) ==
    IF ks = <<>> THEN cur
    ELSE FoldMappingsInnermostFirst(MappingKey(ks[Len(ks)], cur), SubSeq(ks, 1, Len(ks) - 1))

RECURSIVE FoldMappings(_, _)
(* nested mapping: key = keccak256(h(k2) . keccak256(h(k1) . p)), the key *)
(* of one level being the slot of the next                                *)
FoldMappings(cur, ks) ==
    IF ks = <<>> THEN cur
    ELSE FoldMappings(MappingKey(Head(ks), cur), Tail(ks))

RECURSIVE AddIndices(_, _)
AddIndices(cur, idxs) ==
    IF idxs = <<>> THEN cur ELSE AddIndices(AddWord(cur, pad32(Head(idxs))), Tail(idxs))

(* the indices of all the dimensions added to the base of the first *)
FoldArrayFlat(cur, idxs) ==
    IF idxs = <<>> THEN cur ELSE AddIndices(keccak256(<<cur>>), idxs)

RECURSIVE FoldArray(_, _)
(* multi-dimensional array: the array rule once per dimension, left to    *)
(* right, the position in one dimension being the slot of the next        *)
FoldArray(cur, idxs) ==
    IF idxs = <<>> THEN cur
    ELSE FoldArray(ArrayKey(cur, Head(idxs)), Tail(idxs))

(* the number of mapping levels of a key path (they precede the array *)
(* dimensions)                                                        *)
MappingLevels(path) == Cardinality({i \in 1..Len(path) : path[i] # "arr"})

(* key(path...) of an entry with base slot `slot`: the mapping levels, *)
(* then the array dimensions                                           *)
key(slot, path, args) ==
    IF path = <<>> THEN ValueKey(slot)
    ELSE LET m == MappingLevels(path)
         IN  FoldArray(FoldMappings(slot, SubSeq(args, 1, m)),
                       SubSeq(args, m + 1, Len(args)))

----------------------------------------------------------------------------
(* Host storage: read(key) and write(key, value) on 32-byte slots *)

(* a key never written reads as 32 zero bytes *)
read(st, k) == IF k \in DOMAIN st THEN st[k] ELSE Zeros(WordSize)

write(st, k, v) == [x \in DOMAIN st \cup {k} |-> IF x = k THEN v ELSE st[x]]

(* one host write an accessor issues: write(key, value) *)
HostWrite(k, v) == [key |-> k, value |-> v]

RECURSIVE ApplyWrites(_, _)
(* the host storage after the writes ws, issued one by one in order *)
ApplyWrites(st, ws) ==
    IF ws = <<>> THEN st
    ELSE ApplyWrites(write(st, Head(ws).key, Head(ws).value), Tail(ws))

----------------------------------------------------------------------------
(* Direct accessor: types of at most 32 bytes, one slot, no codec *)

(* the value as one 32-byte slot, big-endian, zero-padded on the left *)
EncodeDirect(vtype, v) ==
    CASE vtype = "bool" -> pad32(<<IF v THEN 1 ELSE 0>>)
      [] vtype = "u8" -> pad32(<<v>>)
      [] vtype = "Address" -> pad32(v)
      [] vtype = "U256" -> pad32(v)

DecodeDirect(vtype, w) ==
    CASE vtype = "bool" -> w[WordSize] # 0
      [] vtype = "u8" -> w[WordSize]
      [] vtype = "Address" -> SubSeq(w, WordSize - AddressSize + 1, WordSize)
      [] vtype = "U256" -> w

(* the single host write of a direct set *)
DirectWrites(k, vtype, v) == <<HostWrite(k, EncodeDirect(vtype, v))>>

DirectGet(st, k, vtype) == [outcome |-> "ok", value |-> DecodeDirect(vtype, read(st, k))]

----------------------------------------------------------------------------
(* Codec: the canonical (Solidity ABI) encoding of the complex types *)

(* the number a 32-byte word holds, -1 when it is 2^16 or more *)
NumOf(w) ==
    IF SubSeq(w, 1, WordSize - 2) = Zeros(WordSize - 2)
    THEN w[WordSize - 1] * ByteBase + w[WordSize]
    ELSE -1

(* the length of n bytes rounded up to whole words *)
Padded(n) == ((n + WordSize - 1) \div WordSize) * WordSize

PadRight(b) == b \o Zeros(Padded(Len(b)) - Len(b))

(* a dynamic byte string: its length word, then its bytes in whole words *)
EncodeTail(b) == ToBE(Len(b), WordSize) \o PadRight(b)

(* the byte string whose length word is at byte offset o of enc, or "bad" *)
DecodeTail(enc, o) ==
    IF o + WordSize > Len(enc) THEN [ok |-> FALSE, value |-> <<>>, end |-> 0]
    ELSE LET n == NumOf(SubSeq(enc, o + 1, o + WordSize))
         IN  IF n < 0 \/ o + WordSize + Padded(n) > Len(enc)
             THEN [ok |-> FALSE, value |-> <<>>, end |-> 0]
             ELSE [ok |-> TRUE,
                   value |-> SubSeq(enc, o + WordSize + 1, o + WordSize + n),
                   end |-> o + WordSize + Padded(n)]

HeadWords(vtype) ==
    CASE vtype = "Bytes" -> 1
      [] vtype = "UserProfile" -> 4
      [] vtype = "Flag" -> 1

(* whether every value of the type encodes to the same number of bytes *)
IsStatic(vtype) == vtype = "Flag"

encode(vtype, v) ==
    CASE vtype = "Bytes" -> ToBE(WordSize, WordSize) \o EncodeTail(v)
      [] vtype = "Flag" -> pad32(<<IF v.is_verified THEN 1 ELSE 0>>)
      [] vtype = "UserProfile" ->
            LET h == HeadWords(vtype) * WordSize
                t1 == EncodeTail(v.username)
            IN  ToBE(h, WordSize) \o v.reputation
                  \o pad32(<<IF v.is_verified THEN 1 ELSE 0>>)
                  \o ToBE(h + Len(t1), WordSize) \o t1 \o EncodeTail(v.metadata)

DecodeError == [ok |-> FALSE, value |-> <<>>]

Word(enc, i) == SubSeq(enc, (i - 1) * WordSize + 1, i * WordSize)

decode(vtype, enc) ==
    IF Len(enc) < HeadWords(vtype) * WordSize THEN DecodeError
    ELSE CASE vtype = "Bytes" ->
                LET t == DecodeTail(enc, WordSize)
                IN  IF NumOf(Word(enc, 1)) = WordSize /\ t.ok /\ t.end = Len(enc)
                    THEN [ok |-> TRUE, value |-> t.value] ELSE DecodeError
           [] vtype = "Flag" ->
                IF Len(enc) = WordSize /\ NumOf(enc) \in {0, 1}
                THEN [ok |-> TRUE, value |-> [is_verified |-> enc[WordSize] = 1]]
                ELSE DecodeError
           [] vtype = "UserProfile" ->
                LET h == HeadWords(vtype) * WordSize
                    t1 == DecodeTail(enc, h)
                    t2 == DecodeTail(enc, t1.end)
                IN  IF /\ NumOf(Word(enc, 1)) = h
                       /\ NumOf(Word(enc, 3)) \in {0, 1}
                       /\ t1.ok
                       /\ NumOf(Word(enc, 4)) = t1.end
                       /\ t2.ok
                       /\ t2.end = Len(enc)
                    THEN [ok |-> TRUE,
                          value |-> [username |-> t1.value,
                                     reputation |-> Word(enc, 2),
                                     is_verified |-> Word(enc, 3)[WordSize] = 1,
                                     metadata |-> t2.value]]
                    ELSE DecodeError

(* the value of a type whose storage was never written *)
ZeroValue(vtype) ==
    CASE vtype = "bool" -> FALSE
      [] vtype = "u8" -> 0
      [] vtype = "Address" -> Zeros(AddressSize)
      [] vtype = "U256" -> Zeros(WordSize)
      [] vtype = "Bytes" -> <<>>
      [] vtype = "Flag" -> [is_verified |-> FALSE]
      [] vtype = "UserProfile" ->
            [username |-> <<>>, reputation |-> Zeros(WordSize),
             is_verified |-> FALSE, metadata |-> <<>>]

----------------------------------------------------------------------------
(* Indirect accessor (StorageValueSolidity): encode, then one slot or a *)
(* head slot holding the encoded length and consecutive data slots      *)

Chunks(n) == (n + WordSize - 1) \div WordSize

(* the i-th 32-byte chunk of enc, the last one zero-padded on the right *)
Chunk(enc, i) ==
    LET c == SubSeq(enc, (i - 1) * WordSize + 1,
                    IF i * WordSize < Len(enc) THEN i * WordSize ELSE Len(enc))
    IN  c \o Zeros(WordSize - Len(c))

(* the chunks of enc written at k + 1, k + 2, ..., each by one write *)
ChunkWrites(k, enc) ==
    [i \in 1..Chunks(Len(enc)) |-> HostWrite(AddWord(k, ToBE(i, WordSize)), Chunk(enc, i))]

RECURSIVE ReadChunks(_, _, _)
ReadChunks(st, k, i) ==
    IF i = 0 THEN <<>>
    ELSE ReadChunks(st, k, i - 1) \o read(st, AddWord(k, ToBE(i, WordSize)))

(* the host writes of an indirect set, in the order they are issued: one *)
(* slot when the encoding fits it, else the head slot, then the chunks   *)
IndirectWrites(k, vtype, v) ==
    LET enc == encode(vtype, v)
    IN  IF Len(enc) <= WordSize
        THEN <<HostWrite(k, pad32(enc))>>
        ELSE <<HostWrite(k, ToBE(Len(enc), WordSize))>> \o ChunkWrites(k, enc)

IndirectGet(st, k, vtype) ==
    IF IsStatic(vtype) /\ HeadWords(vtype) = 1
    THEN LET d == decode(vtype, read(st, k))
         IN  IF d.ok THEN [outcome |-> "ok", value |-> d.value]
             ELSE [outcome |-> "ShapeMismatchError", value |-> <<>>]
    ELSE LET n == NumOf(read(st, k))
         IN  IF n = 0 THEN [outcome |-> "ok", value |-> ZeroValue(vtype)]
             ELSE IF n < 0 THEN [outcome |-> "ShapeMismatchError", value |-> <<>>]
             ELSE LET d == decode(vtype, SubSeq(ReadChunks(st, k, Chunks(n)), 1, n))
                  IN  IF d.ok THEN [outcome |-> "ok", value |-> d.value]
                      ELSE [outcome |-> "ShapeMismatchError", value |-> <<>>]

----------------------------------------------------------------------------
(* get / set: the accessor is selected by the declared type *)

(* a get that returns an address as the whole slot it is read from *)
getAddressAsSlot(st, k, vtype) ==
    IF vtype = "Address" THEN [outcome |-> "ok", value |-> read(st, k)]
    ELSE IF IsDirect(vtype) THEN DirectGet(st, k, vtype) ELSE IndirectGet(st, k, vtype)

(* an indirect get that decodes whatever the head slot says, also when *)
(* nothing was ever stored                                             *)
getNoDefault(st, k, vtype) ==
    IF IsDirect(vtype) THEN DirectGet(st, k, vtype)
    ELSE LET n == NumOf(read(st, k))
             d == IF n < 0 THEN DecodeError
                  ELSE decode(vtype, SubSeq(ReadChunks(st, k, Chunks(n)), 1, n))
         IN  IF d.ok THEN [outcome |-> "ok", value |-> d.value]
             ELSE [outcome |-> "ShapeMismatchError", value |-> <<>>]

(* a get that falls back to the default value when decoding fails *)
getDefaultOnError(st, k, vtype) ==
    LET r == IF IsDirect(vtype) THEN DirectGet(st, k, vtype) ELSE IndirectGet(st, k, vtype)
    IN  IF r.outcome = "ok" THEN r ELSE [outcome |-> "ok", value |-> ZeroValue(vtype)]

get(st, k, vtype) ==
    IF IsDirect(vtype) THEN DirectGet(st, k, vtype) ELSE IndirectGet(st, k, vtype)

(* the head slot holding the number of data slots instead of the length *)
SetWritesHeadCountsSlots(k, vtype, v) ==
    IF IsDirect(vtype) THEN DirectWrites(k, vtype, v)
    ELSE LET ws == IndirectWrites(k, vtype, v)
         IN  IF Len(ws) = 1 THEN ws
             ELSE <<HostWrite(k, ToBE(Len(ws) - 1, WordSize))>> \o Tail(ws)

(* a direct set that also clears the slot after its own *)
SetWritesClearsNext(k, vtype, v) ==
    IF IsDirect(vtype)
    THEN DirectWrites(k, vtype, v) \o <<HostWrite(AddWord(k, ToBE(1, WordSize)), Zeros(WordSize))>>
    ELSE IndirectWrites(k, vtype, v)

(* the encoded length a multi-slot layout supports, in slots *)
MaxLayoutSlots == 16

(* set fails, before any write, on a value whose encoding exceeds the *)
(* supported multi-slot layout                                        *)
SetOutcome(vtype, v) ==
    IF ~IsDirect(vtype) /\ Len(encode(vtype, v)) > MaxLayoutSlots * WordSize
    THEN "EncodingOverflowError" ELSE "ok"

(* an indirect set that always lays the value out as a head slot and *)
(* data slots, also when its encoding fits one slot                  *)
SetWritesAlwaysHead(k, vtype, v) ==
    IF IsDirect(vtype) THEN DirectWrites(k, vtype, v)
    ELSE <<HostWrite(k, ToBE(Len(encode(vtype, v)), WordSize))>>
             \o ChunkWrites(k, encode(vtype, v))

(* the host writes set issues, in order *)
SetWrites(k, vtype, v) ==
    IF IsDirect(vtype) THEN DirectWrites(k, vtype, v) ELSE IndirectWrites(k, vtype, v)

set(st, k, vtype, v) == ApplyWrites(st, SetWrites(k, vtype, v))

----------------------------------------------------------------------------
(* Inputs *)

MaxDecls == 3

MaxSlot == 5

MaxSets == 2

MaxInvocations == 2

Address(b) == [i \in 1..AddressSize |-> b]

AddressKeys == {Address(0), Address(1)}

U256Keys == {ToBE(1, WordSize), ToBE(2, WordSize)}

Indices == {ToBE(0, WordSize), ToBE(2, WordSize)}

ArgSet(kind) ==
    CASE kind = "mapA" -> AddressKeys
      [] kind = "mapU" -> U256Keys
      [] kind = "arr" -> Indices

RECURSIVE ArgsFor(_)
(* the key paths an entry of the given path shape accepts *)
ArgsFor(path) ==
    IF path = <<>> THEN {<<>>}
    ELSE {<<a>> \o r : a \in ArgSet(Head(path)), r \in ArgsFor(Tail(path))}

(* key paths the frame of a set is observed at: those the calls use and *)
(* one more per component, which no call ever passes                    *)
UnknownAddress == Address(2)

ProbeSet(kind) ==
    CASE kind = "mapA" -> AddressKeys \cup {UnknownAddress}
      [] kind = "mapU" -> U256Keys \cup {ToBE(3, WordSize)}
      [] kind = "arr" -> Indices \cup {ToBE(1, WordSize)}

RECURSIVE ProbeArgsFor(_)
ProbeArgsFor(path) ==
    IF path = <<>> THEN {<<>>}
    ELSE {<<a>> \o r : a \in ProbeSet(Head(path)), r \in ProbeArgsFor(Tail(path))}

Bytes33 == [i \in 1..(WordSize + 1) |-> i]

Alice == [username |-> <<97, 108>>, reputation |-> ToBE(7, WordSize),
          is_verified |-> TRUE, metadata |-> Bytes33]

(* the values a set is called with, per declared type *)
ValuesOf(vtype) ==
    CASE vtype = "bool" -> BOOLEAN
      [] vtype = "u8" -> {0, ByteBase - 1}
      [] vtype = "Address" -> {Address(0), Address(1)}
      [] vtype = "U256" -> {ToBE(0, WordSize), ToBE(100, WordSize)}
      [] vtype = "Bytes" -> {<<>>, <<7>>, Bytes33}
      [] vtype = "Flag" -> {[is_verified |-> b] : b \in BOOLEAN}
      [] vtype = "UserProfile" -> {ZeroValue(vtype), Alice}

(* a byte string whose encoding no multi-slot layout holds *)
TooLong == [i \in 1..(MaxLayoutSlots * WordSize) |-> 0]

(* the values a set inside an invocation is called with *)
InvValuesOf(vtype) ==
    CASE vtype = "Bytes" -> {<<>>, Bytes33, TooLong}
      [] vtype = "U256" -> {ToBE(100, WordSize)}
      [] vtype = "Flag" -> {[is_verified |-> TRUE]}
      [] OTHER -> ValuesOf(vtype)

DeclKinds ==
    {Owner, Paused, Small1, TotalSupply, CurrentUser, Balance, Allowance, Metadata,
     Values, NestedArr}

KeyShapes ==
    {Owner, Small1, CurrentUser, Balance, Metadata, Allowance, Pairs, Triples,
     Values, Grid, NestedArr, Ledger}

TokenContract == <<Balance, Allowance, Metadata>>
ArrayContract == <<Values, Grid>>
ProfileContract == <<CurrentUser, Profiles>>
PackingExample == <<Small1, Small2, Large>>
BasicContract == <<Owner, Paused, TotalSupply, Balance>>
NotesContract == <<Note, Verified, Ledger>>

(* the contracts whose invocations are followed write by write *)
InvContracts == {NotesContract, ProfileContract}

Contracts ==
    {TokenContract, ArrayContract, ProfileContract, PackingExample, BasicContract,
     NotesContract}

----------------------------------------------------------------------------
(* Generated API *)

NoOp == [op |-> "none", entry |-> 0, slot |-> U(0), args |-> <<>>, key |-> U(0),
         value |-> <<>>, result |-> <<>>, outcome |-> "ok", writes |-> <<>>]

(* the data of a codec type moved to keccak256(key) once its head slot is *)
(* in use, as Solidity lays out long byte strings                        *)
KeyOfLongForm(sdk, e, args) ==
    LET k == key(schema[e].slot, schema[e].path, args)
    IN  IF ~IsDirect(schema[e].vtype) /\ read(sdk, k) # Zeros(WordSize)
        THEN keccak256(<<k>>) ELSE k

(* Entry::key(&sdk, args...); sdk is the host storage the call is given *)
KeyOf(sdk, e, args) == key(schema[e].slot, schema[e].path, args)

Key(e, args) ==
    /\ last' = [op |-> "key", entry |-> e, slot |-> schema[e].slot, args |-> args,
                key |-> KeyOf(store, e, args), value |-> <<>>, result |-> <<>>,
                outcome |-> "ok", writes |-> <<>>]
    /\ UNCHANGED <<decls, schema, store, nsets, invocation>>

(* Entry::get(&sdk, args...) *)
GetOf(sdk, e, args) == get(sdk, KeyOf(sdk, e, args), schema[e].vtype)

(* a get that stores the default value it returns for an unwritten key *)
GetMaterializesDefault(e, args) ==
    /\ LET r == GetOf(store, e, args)
           k == KeyOf(store, e, args)
       IN  /\ last' = [op |-> "get", entry |-> e, slot |-> schema[e].slot, args |-> args,
                       key |-> k, value |-> <<>>, result |-> r.value,
                       outcome |-> r.outcome, writes |-> <<>>]
           /\ store' = IF k \in DOMAIN store THEN store
                        ELSE write(store, k, Zeros(WordSize))
    /\ UNCHANGED <<decls, schema, nsets, invocation>>

Get(e, args) ==
    /\ LET r == GetOf(store, e, args)
       IN  last' = [op |-> "get", entry |-> e, slot |-> schema[e].slot, args |-> args,
                    key |-> KeyOf(store, e, args), value |-> <<>>, result |-> r.value,
                    outcome |-> r.outcome, writes |-> <<>>]
    /\ UNCHANGED <<decls, schema, store, nsets, invocation>>

SetOfAtBaseSlot(sdk, e, args, v) == set(sdk, schema[e].slot, schema[e].vtype, v)

(* a set that never lowers the encoded length its head slot records *)
SetOfKeepsLongerLength(sdk, e, args, v) ==
    LET k == KeyOf(sdk, e, args)
        ws == SetWrites(k, schema[e].vtype, v)
    IN  IF /\ ~IsDirect(schema[e].vtype)
           /\ Len(ws) > 1
           /\ NumOf(read(sdk, k)) > NumOf(ws[1].value)
        THEN ApplyWrites(sdk, Tail(ws))
        ELSE ApplyWrites(sdk, ws)

(* Entry::set(&mut sdk, args..., value): the host storage after the call *)
SetOf(sdk, e, args, v) == set(sdk, KeyOf(sdk, e, args), schema[e].vtype, v)

(* what a set call leaves in `last`: its outcome and the writes it issues *)
SetCallOf(sdk, e, args, v) ==
    LET o == SetOutcome(schema[e].vtype, v)
    IN  [op |-> "set", entry |-> e, slot |-> schema[e].slot, args |-> args,
         key |-> KeyOf(sdk, e, args), value |-> v, result |-> <<>>, outcome |-> o,
         writes |-> IF o = "ok" THEN SetWrites(KeyOf(sdk, e, args), schema[e].vtype, v)
                    ELSE <<>>]

Set(e, args, v) ==
    /\ nsets < MaxSets
    /\ store' = IF SetOutcome(schema[e].vtype, v) = "ok" THEN SetOf(store, e, args, v)
                 ELSE store
    /\ last' = SetCallOf(store, e, args, v)
    /\ nsets' = nsets + 1
    /\ UNCHANGED <<decls, schema, invocation>>

(* one more declaration inside solidity_storage! { ... } *)
Declare(d) ==
    /\ Len(decls) < MaxDecls
    /\ decls' = Append(decls, d)
    /\ schema' = solidity_storage(decls')
    /\ UNCHANGED <<store, last, nsets, invocation>>

----------------------------------------------------------------------------
(* Specifications *)

EmptyStore == [k \in {} |-> Zeros(WordSize)]

(* no invocation was started yet *)
NoInvocation ==
    /\ status = "idle"
    /\ checkpoint = EmptyStore
    /\ pending = <<>>
    /\ intent = EmptyStore
    /\ ninv = 0

(* the macro expanding a declaration list *)
InitAssign ==
    /\ decls = <<>>
    /\ schema = solidity_storage(decls)
    /\ store = EmptyStore
    /\ last = NoOp
    /\ nsets = 0
    /\ NoInvocation

NextAssign == \E d \in DeclKinds : Declare(d)

SpecAssign == InitAssign /\ [][NextAssign]_vars

(* key derivation for an entry of every shape at every base slot *)
InitKey ==
    /\ decls \in {[i \in 1..n |-> Paused] \o <<d>> : n \in 0..MaxSlot, d \in KeyShapes}
    /\ schema = solidity_storage(decls)
    /\ store = EmptyStore
    /\ last = NoOp
    /\ nsets = 0
    /\ NoInvocation

NextKey == \E e \in 1..Len(schema) : \E args \in ArgsFor(schema[e].path) : Key(e, args)

SpecKey == InitKey /\ [][NextKey]_vars

(* a deployed contract: its schema is fixed, its storage starts empty *)
Init ==
    /\ decls \in Contracts
    /\ schema = solidity_storage(decls)
    /\ store = EmptyStore
    /\ last = NoOp
    /\ nsets = 0
    /\ NoInvocation

KeyCall == \E e \in 1..Len(schema) : \E args \in ArgsFor(schema[e].path) : Key(e, args)

GetCall == \E e \in 1..Len(schema) : \E args \in ArgsFor(schema[e].path) : Get(e, args)

SetCall ==
    \E e \in 1..Len(schema) : \E args \in ArgsFor(schema[e].path) :
        \E v \in ValuesOf(schema[e].vtype) : Set(e, args, v)

Next == KeyCall \/ GetCall \/ SetCall

Spec == Init /\ [][Next]_vars

----------------------------------------------------------------------------
(* Invocations: a contract method runs get and set calls against the host *)
(* storage; it returns and its writes stay, or it aborts (a storage       *)
(* error, a panic, the host giving up) and the host discards them all.    *)

(* between two invocations *)
Idle == status \in {"idle", "committed", "aborted"}

StorageErrors == {"ShapeMismatchError", "EncodingOverflowError"}

Begin ==
    /\ Idle
    /\ ninv < MaxInvocations
    /\ status' = "running"
    /\ checkpoint' = store
    /\ intent' = store
    /\ pending' = <<>>
    /\ ninv' = ninv + 1
    /\ last' = NoOp
    /\ UNCHANGED <<decls, schema, store, nsets>>

(* Entry::get inside an invocation: a storage error fails the invocation *)
InvGet(e, args) ==
    /\ status = "running"
    /\ LET r == GetOf(store, e, args)
       IN  /\ last' = [op |-> "get", entry |-> e, slot |-> schema[e].slot, args |-> args,
                       key |-> KeyOf(store, e, args), value |-> <<>>, result |-> r.value,
                       outcome |-> r.outcome, writes |-> <<>>]
           /\ status' = IF r.outcome = "ok" THEN "running" ELSE "failed"
    /\ UNCHANGED <<decls, schema, store, nsets, checkpoint, pending, intent, ninv>>

(* Entry::set inside an invocation: the value is encoded and its host *)
(* writes are lined up, to be issued one by one                       *)
InvSet(e, args, v) ==
    /\ status = "running"
    /\ nsets < MaxSets
    /\ last' = SetCallOf(store, e, args, v)
    /\ pending' = last'.writes
    /\ status' = IF last'.outcome = "ok" THEN "writing" ELSE "failed"
    /\ intent' = IF last'.outcome = "ok" THEN SetOf(intent, e, args, v) ELSE intent
    /\ nsets' = nsets + 1
    /\ UNCHANGED <<decls, schema, store, checkpoint, ninv>>

(* the next host write of the set in progress *)
WriteSlot ==
    /\ status = "writing"
    /\ store' = write(store, Head(pending).key, Head(pending).value)
    /\ pending' = Tail(pending)
    /\ status' = IF pending' = <<>> THEN "running" ELSE "writing"
    /\ UNCHANGED <<decls, schema, last, nsets, checkpoint, intent, ninv>>

(* the method returns: its writes are committed *)
Return ==
    /\ status = "running"
    /\ status' = "committed"
    /\ UNCHANGED <<decls, schema, store, last, nsets, checkpoint, pending, intent, ninv>>

(* an abort that leaves the host storage as the invocation made it *)
AbortWithoutRollback ==
    /\ status \in {"running", "writing", "failed"}
    /\ status' = "aborted"
    /\ intent' = checkpoint
    /\ UNCHANGED <<decls, schema, store, last, nsets, checkpoint, pending, ninv>>

(* an abort whose rollback misses the writes of a set that was not finished *)
AbortKeepsUnfinishedSet ==
    /\ status \in {"running", "writing", "failed"}
    /\ store' = IF status = "writing"
                 THEN ApplyWrites(checkpoint,
                                  SubSeq(last.writes, 1, Len(last.writes) - Len(pending)))
                 ELSE checkpoint
    /\ status' = "aborted"
    /\ intent' = checkpoint
    /\ UNCHANGED <<decls, schema, last, nsets, checkpoint, pending, ninv>>

(* the invocation aborts, at any point, also between two host writes of *)
(* one set: the host storage is again what it was when it started; the  *)
(* writes not yet issued stay recorded in `pending` and are never made  *)
Abort ==
    /\ status \in {"running", "writing", "failed"}
    /\ store' = checkpoint
    /\ status' = "aborted"
    /\ intent' = checkpoint
    /\ UNCHANGED <<decls, schema, last, nsets, checkpoint, pending, ninv>>

InitInv ==
    /\ decls \in InvContracts
    /\ schema = solidity_storage(decls)
    /\ store = EmptyStore
    /\ last = NoOp
    /\ nsets = 0
    /\ NoInvocation

InvGetCall == \E e \in 1..Len(schema) : \E args \in ArgsFor(schema[e].path) : InvGet(e, args)

InvSetCall ==
    \E e \in 1..Len(schema) : \E args \in ArgsFor(schema[e].path) :
        \E v \in InvValuesOf(schema[e].vtype) : InvSet(e, args, v)

NextInv == Begin \/ InvGetCall \/ InvSetCall \/ WriteSlot \/ Return \/ Abort

SpecInv == InitInv /\ [][NextInv]_vars

(* Array keys over the whole index range: U256 indices up to 2^256 - 1, *)
(* and digests of every size the hash may yield                         *)

MaxU256 == [i \in 1..WordSize |-> ByteBase - 1]

WideIndices == {ToBE(0, WordSize), ToBE(2, WordSize), MaxU256}

(* 32-byte values keccak256 may yield for a preimage *)
Digests ==
    {Zeros(WordSize), ToBE(1, WordSize), MaxU256,
     [i \in 1..WordSize |-> IF i = 1 THEN 128 ELSE 0],
     [i \in 1..WordSize |-> IF i = WordSize THEN 0 ELSE ByteBase - 1]}

RECURSIVE WideArgsFor(_)
WideArgsFor(path) ==
    IF path = <<>> THEN {<<>>}
    ELSE {<<a>> \o r : a \in IF Head(path) = "arr" THEN WideIndices ELSE ArgSet(Head(path)),
                       r \in WideArgsFor(Tail(path))}

(* one array entry declared at any base slot *)
InitWide ==
    /\ decls \in {[i \in 1..n |-> Paused] \o <<d>> :
                    n \in 0..MaxSlot, d \in {Values, Grid, Ledger}}
    /\ schema = solidity_storage(decls)
    /\ store = EmptyStore
    /\ last = NoOp
    /\ nsets = 0
    /\ NoInvocation

WideKeyCall ==
    \E e \in 1..Len(schema) : \E args \in WideArgsFor(schema[e].path) : Key(e, args)

WideSetCall ==
    /\ nsets = 0
    /\ \E e \in 1..Len(schema) : \E args \in WideArgsFor(schema[e].path) :
          \E v \in ValuesOf(schema[e].vtype) : Set(e, args, v)

NextWide == WideKeyCall \/ WideSetCall

SpecWide == InitWide /\ [][NextWide]_vars

(* a contract of one dynamic array, of Direct or of Indirect elements *)
InitElements ==
    /\ decls \in {<<Values>>, <<Messages>>}
    /\ schema = solidity_storage(decls)
    /\ store = EmptyStore
    /\ last = NoOp
    /\ nsets = 0
    /\ NoInvocation

SpecElements == InitElements /\ [][Next]_vars

(* TokenContract::transfer *)

(* transfer calls followed in one behaviour *)
MaxTransfers == 2

(* the callers and recipients of transfer *)
Holders == <<Address(0), Address(1), Address(2)>>

(* the amounts transfer is called with *)
Amounts == {ToBE(0, WordSize), ToBE(40, WordSize), ToBE(100, WordSize)}

(* the balances the holders start with: nothing at all, one funded    *)
(* holder, and one holding all but 100 of what a U256 holds next to a *)
(* holder of 100                                                      *)
Fundings ==
    {<<ToBE(0, WordSize), ToBE(0, WordSize), ToBE(0, WordSize)>>,
     <<ToBE(100, WordSize), ToBE(0, WordSize), ToBE(0, WordSize)>>,
     <<SubU256(MaxU256, ToBE(100, WordSize)), ToBE(100, WordSize), ToBE(0, WordSize)>>}

(* the entry of the schema declared as Balance *)
BalanceEntry == CHOOSE e \in 1..Len(schema) : decls[e] = Balance

RECURSIVE Funded(_, _, _)
(* Balance::set(&mut sdk, user, balance) for the holders i, i + 1, ... *)
(* that start with a balance                                           *)
Funded(sdk, bal, i) ==
    IF i > Len(bal) THEN sdk
    ELSE Funded(IF bal[i] = Zeros(WordSize) THEN sdk
                ELSE SetOf(sdk, BalanceEntry, <<Holders[i]>>, bal[i]),
                bal, i + 1)

(* what a transfer call leaves in `last` *)
TransferCall(from, to, amount, ok, ws) ==
    [op |-> "transfer", entry |-> BalanceEntry, slot |-> schema[BalanceEntry].slot,
     args |-> <<from, to>>, key |-> KeyOf(store, BalanceEntry, <<from>>),
     value |-> amount, result |-> ok, outcome |-> "ok", writes |-> ws]

(* a transfer that reads the recipient's balance before it writes the *)
(* sender's                                                           *)
TransferReadsRecipientFirst(from, to, amount) ==
    /\ ninv < MaxTransfers
    /\ ninv' = ninv + 1
    /\ UNCHANGED <<status, checkpoint, pending, intent>>
    /\ LET from_balance == GetOf(store, BalanceEntry, <<from>>).value
           to_balance == GetOf(store, BalanceEntry, <<to>>).value
       IN  IF LtU256(from_balance, amount)
           THEN /\ last' = TransferCall(from, to, amount, FALSE, <<>>)
                /\ UNCHANGED <<decls, schema, store, nsets>>
           ELSE LET debit == SubU256(from_balance, amount)
                    debited == SetOf(store, BalanceEntry, <<from>>, debit)
                    credit == AddU256(to_balance, amount)
                IN  /\ store' = SetOf(debited, BalanceEntry, <<to>>, credit)
                    /\ last' = TransferCall(from, to, amount, TRUE,
                           SetCallOf(store, BalanceEntry, <<from>>, debit).writes
                               \o SetCallOf(debited, BalanceEntry, <<to>>, credit).writes)
                    /\ UNCHANGED <<decls, schema, nsets>>

(* a transfer that debits the sender before it checks the balance *)
TransferDebitsBeforeCheck(from, to, amount) ==
    /\ ninv < MaxTransfers
    /\ ninv' = ninv + 1
    /\ UNCHANGED <<status, checkpoint, pending, intent>>
    /\ LET from_balance == GetOf(store, BalanceEntry, <<from>>).value
           debit == SubU256(from_balance, amount)
           debited == SetOf(store, BalanceEntry, <<from>>, debit)
       IN  IF LtU256(from_balance, amount)
           THEN /\ store' = debited
                /\ last' = TransferCall(from, to, amount, FALSE,
                       SetCallOf(store, BalanceEntry, <<from>>, debit).writes)
                /\ UNCHANGED <<decls, schema, nsets>>
           ELSE LET credit == AddU256(GetOf(debited, BalanceEntry, <<to>>).value, amount)
                IN  /\ store' = SetOf(debited, BalanceEntry, <<to>>, credit)
                    /\ last' = TransferCall(from, to, amount, TRUE,
                           SetCallOf(store, BalanceEntry, <<from>>, debit).writes
                               \o SetCallOf(debited, BalanceEntry, <<to>>, credit).writes)
                    /\ UNCHANGED <<decls, schema, nsets>>

(* transfer(&mut self, to, amount) -> bool, called by `from` *)
Transfer(from, to, amount) ==
    /\ ninv < MaxTransfers
    /\ ninv' = ninv + 1
    /\ UNCHANGED <<status, checkpoint, pending, intent>>
    /\ LET from_balance == GetOf(store, BalanceEntry, <<from>>).value
       IN  IF LtU256(from_balance, amount)
           THEN /\ last' = TransferCall(from, to, amount, FALSE, <<>>)
                /\ UNCHANGED <<decls, schema, store, nsets>>
           ELSE LET debit == SubU256(from_balance, amount)
                    debited == SetOf(store, BalanceEntry, <<from>>, debit)
                    credit == AddU256(GetOf(debited, BalanceEntry, <<to>>).value, amount)
                IN  /\ store' = SetOf(debited, BalanceEntry, <<to>>, credit)
                    /\ last' = TransferCall(from, to, amount, TRUE,
                           SetCallOf(store, BalanceEntry, <<from>>, debit).writes
                               \o SetCallOf(debited, BalanceEntry, <<to>>, credit).writes)
                    /\ UNCHANGED <<decls, schema, nsets>>

(* the token contract deployed, its holders funded with balances whose *)
(* total a U256 holds                                                  *)
InitToken ==
    /\ decls = TokenContract
    /\ schema = solidity_storage(decls)
    /\ \E bal \in Fundings : store = Funded(EmptyStore, bal, 1)
    /\ last = NoOp
    /\ nsets = 0
    /\ NoInvocation

NextToken ==
    \E i, j \in 1..Len(Holders) : \E amount \in Amounts :
        Transfer(Holders[i], Holders[j], amount)

SpecToken == InitToken /\ [][NextToken]_vars

Types == {"bool", "u8", "Address", "U256", "Bytes", "Flag", "UserProfile"}

CodecTypes == {t \in Types : ~IsDirect(t)}

(* a deployed contract as above, or one whose single entry was declared *)
(* with another type when its storage was written: the type was changed *)
(* after data was written                                                *)
InitRedeclared ==
    /\ \/ /\ decls \in Contracts
          /\ store = EmptyStore
       \/ \E old \in Types : \E new \in CodecTypes \ {old} : \E v \in ValuesOf(old) :
             /\ decls = <<Decl(<<>>, new)>>
             /\ store = set(EmptyStore, U(0), old, v)
    /\ schema = solidity_storage(decls)
    /\ last = NoOp
    /\ nsets = 0
    /\ NoInvocation

SpecRedeclared == InitRedeclared /\ [][Next]_vars

----------------------------------------------------------------------------
(* Properties *)

LastEntry == schema[last.entry]

Digest(ws) == [pre |-> ws, off |-> [i \in 1..WordSize |-> 0]]

LeftPadded(k) == [pre |-> <<>>, off |-> [i \in 1..(WordSize - Len(k)) |-> 0] \o k]

(* C1: the n-th declaration (counting from 0) gets base slot n, whatever   *)
(* its shape or size; small types are not packed into one slot.            *)
C1_SlotIsDeclarationIndex ==
    /\ Len(schema) = Len(decls)
    /\ \A n \in 1..Len(decls) :
          /\ schema[n].slot = [pre |-> <<>>, off |-> ToBE(n - 1, WordSize)]
          /\ schema[n].path = decls[n].path
          /\ schema[n].vtype = decls[n].vtype

C1_Witness ==
    /\ Len(schema) = 3
    /\ decls[1] = Small1
    /\ decls[2] = Paused
    /\ decls[3] = CurrentUser

(* C2: no two declared entries have the same base slot, and an entry's   *)
(* base slot is the same at every access: get, set and key leave the    *)
(* schema as it is and use the slot the schema holds.                   *)
C2_SlotsUniqueAndFixed ==
    [][/\ \A m, n \in 1..Len(schema) : schema[m].slot = schema[n].slot => m = n
       /\ schema' = schema
       /\ last'.slot = schema[last'.entry].slot]_vars

C2_Witness ==
    /\ last.op = "get"
    /\ nsets = 2
    /\ last.entry = 4
    /\ last.slot = U(3)

(* C3: for a Value entry (no key path), key() is the entry's base slot. *)
C3_ValueKeyIsSlot ==
    (last.op = "key" /\ LastEntry.path = <<>>) => last.key = LastEntry.slot

C3_Witness ==
    /\ last.op = "key"
    /\ LastEntry.path = <<>>
    /\ LastEntry.vtype = "UserProfile"
    /\ LastEntry.slot = U(4)

(* C4: for a simple mapping with base slot p and key k, zero key and zero  *)
(* slot included, key(k) = keccak256(pad32(encode(k)) || pad32(p)), the    *)
(* key first and the slot second.                                          *)
C4_MappingKey ==
    (last.op = "key" /\ Len(LastEntry.path) = 1 /\ LastEntry.path[1] # "arr")
        => last.key = Digest(<<LeftPadded(last.args[1]), LastEntry.slot>>)

C4_Witness ==
    /\ last.op = "key"
    /\ LastEntry.path = <<"mapA">>
    /\ last.args = <<Address(0)>>
    /\ LastEntry.slot = U(0)

(* C5: for a nested mapping with base slot p and key path (k1, ..., kn),   *)
(* the key is the left fold h0 = p, h_i = keccak256(pad32(k_i) || h_(i-1));*)
(* for slot 3, k1 = 1, k2 = 2 it is                                        *)
(* keccak256(pad32(2) || keccak256(pad32(1) || pad32(3))).                 *)
C5_NestedMappingKey ==
    (last.op = "key" /\ Len(LastEntry.path) >= 2
                    /\ \A i \in 1..Len(LastEntry.path) : LastEntry.path[i] # "arr")
        => LET h1 == Digest(<<LeftPadded(last.args[1]), LastEntry.slot>>)
               h2 == Digest(<<LeftPadded(last.args[2]), h1>>)
           IN  /\ Len(LastEntry.path) = 2 => last.key = h2
               /\ Len(LastEntry.path) = 3 =>
                     last.key = Digest(<<LeftPadded(last.args[3]), h2>>)
               /\ Len(LastEntry.path) <= 3

C5_Witness ==
    /\ last.op = "key"
    /\ LastEntry.path = <<"mapU", "mapU">>
    /\ LastEntry.slot = U(3)
    /\ last.args = <<ToBE(1, WordSize), ToBE(2, WordSize)>>
    /\ last.key = Digest(<<U(2), Digest(<<U(1), U(3)>>)>>)

(* C6: for a one-dimensional dynamic array with base slot p,               *)
(* key(i) = keccak256(pad32(p)) + i, so key(0) = keccak256(pad32(p)) and   *)
(* key(i) = key(0) + i.                                                    *)
C6_ArrayKey ==
    (last.op = "key" /\ LastEntry.path = <<"arr">>)
        => /\ last.key = [pre |-> <<LastEntry.slot>>, off |-> last.args[1]]
           /\ KeyOf(store, last.entry, <<ToBE(0, WordSize)>>) = Digest(<<LastEntry.slot>>)
           /\ last.key = AddWord(KeyOf(store, last.entry, <<ToBE(0, WordSize)>>), last.args[1])

C6_Witness ==
    /\ last.op = "key"
    /\ LastEntry.path = <<"arr">>
    /\ LastEntry.slot = U(5)
    /\ last.args = <<ToBE(2, WordSize)>>

(* C7: for a multi-dimensional array the array rule is repeated per        *)
(* dimension, left to right, the position of one dimension being the slot  *)
(* of the next: key(i, j) = keccak256(keccak256(p) + i) + j, likewise for  *)
(* three indices; for a mapping to an array the mapping rule comes first   *)
(* and the array rule is applied to its result.                            *)
C7_MultiDimArrayKey ==
    (last.op = "key" /\ Len(LastEntry.path) >= 2
                    /\ LastEntry.path[Len(LastEntry.path)] = "arr")
        => LET p == LastEntry.slot
               a == last.args
               d1 == [pre |-> <<p>>, off |-> a[1]]
               d2 == [pre |-> <<d1>>, off |-> a[2]]
           IN  /\ LastEntry.path = <<"arr", "arr">> => last.key = d2
               /\ LastEntry.path = <<"arr", "arr", "arr">> =>
                     last.key = [pre |-> <<d2>>, off |-> a[3]]
               /\ LastEntry.path = <<"mapA", "arr">> =>
                     last.key = [pre |-> <<Digest(<<LeftPadded(a[1]), p>>)>>, off |-> a[2]]
               /\ LastEntry.path \in {<<"arr", "arr">>, <<"arr", "arr", "arr">>,
                                      <<"mapA", "arr">>}

C7_Witness ==
    /\ last.op = "key"
    /\ LastEntry.path = <<"arr", "arr", "arr">>
    /\ last.args = <<ToBE(2, WordSize), ToBE(0, WordSize), ToBE(2, WordSize)>>
    /\ LastEntry.slot = U(1)

(* C8: key is deterministic: for every entry and key path the derived   *)
(* key is the same before and after every get, set and key, so two      *)
(* calls with identical arguments return the same key whatever ran      *)
(* between them and whatever the host storage holds.                    *)
C8_KeyIndependentOfStorage ==
    [][/\ \/ store' = store
          \/ \A e \in 1..Len(schema) : \A args \in ArgsFor(schema[e].path) :
                KeyOf(store', e, args) = KeyOf(store, e, args)
       /\ last'.op = "key" => last'.key = KeyOf(store, last'.entry, last'.args)]_vars

C8_Witness ==
    /\ last.op = "key"
    /\ nsets = 2
    /\ last.key \in DOMAIN store
    /\ ~IsDirect(LastEntry.vtype)

(* C9: for a Mapping, NestedMapping or Array entry, a key path of the same *)
(* length that differs in any argument derives a different key; for a      *)
(* nested mapping key(k1, k2) differs from key(k2, k1) when k1 # k2.       *)
C9_DistinctPathsDistinctKeys ==
    (last.op = "key" /\ LastEntry.path # <<>>)
        => \A b \in ArgsFor(LastEntry.path) :
              b # last.args => KeyOf(store, last.entry, b) # last.key

C9_Witness ==
    /\ last.op = "key"
    /\ LastEntry.path = <<"mapA", "mapA">>
    /\ last.args = <<Address(0), Address(1)>>
    /\ KeyOf(store, last.entry, <<Address(1), Address(0)>>) # last.key

(* C10: round-trip law: a get(path) executed immediately after           *)
(* set(path, v) returns v, whatever operations preceded the set.         *)
C10_GetAfterSet ==
    [][(/\ last.op = "set"
        /\ last'.op = "get"
        /\ last'.entry = last.entry
        /\ last'.args = last.args)
       => (last'.outcome = "ok" /\ last'.result = last.value)]_vars

C10_Witness ==
    /\ last.op = "get"
    /\ nsets = 2
    /\ LastEntry.path = <<"mapA">>
    /\ last.result = Alice

(* C11: default-zero law: a get whose derived storage key was never      *)
(* written returns the zero value of the entry's type: 0, false, the     *)
(* zero address, empty bytes, a struct of zero fields; for Direct and    *)
(* for Indirect types alike.                                             *)
C11_DefaultZero ==
    (last.op = "get" /\ last.key \notin DOMAIN store)
        => LET t == LastEntry.vtype
               zero32 == [i \in 1..32 |-> 0]
           IN  /\ t = "bool" => last.result = FALSE
               /\ t = "u8" => last.result = 0
               /\ t = "Address" => last.result = [i \in 1..20 |-> 0]
               /\ t = "U256" => last.result = zero32
               /\ t = "Bytes" => last.result = <<>>
               /\ t = "Flag" => last.result = [is_verified |-> FALSE]
               /\ t = "UserProfile" =>
                     last.result = [username |-> <<>>, reputation |-> zero32,
                                    is_verified |-> FALSE, metadata |-> <<>>]
               /\ t \in {"bool", "u8", "Address", "U256", "Bytes", "Flag", "UserProfile"}

C11_Witness ==
    /\ last.op = "get"
    /\ last.key \notin DOMAIN store
    /\ nsets = 2
    /\ LastEntry.vtype = "UserProfile"
    /\ LastEntry.path = <<"mapA">>
    /\ \E k \in DOMAIN store : k.pre # <<>>

C13_MappingFrame ==
    [][(/\ last'.op = "set"
        /\ nsets' = nsets + 1
        /\ schema[last'.entry].path # <<>>
        /\ schema[last'.entry].path[1] # "arr")
       => \A b \in ProbeArgsFor(schema[last'.entry].path) :
             b # last'.args
                => GetOf(store', last'.entry, b) = GetOf(store, last'.entry, b)]_vars

C13_Witness ==
    /\ last.op = "set"
    /\ nsets = 2
    /\ LastEntry.path = <<"mapA">>
    /\ LastEntry.slot = U(0)
    /\ last.args = <<Address(1)>>
    /\ last.value = ToBE(0, WordSize)
    /\ GetOf(store, last.entry, <<Address(0)>>).value = ToBE(100, WordSize)
    /\ GetOf(store, last.entry, <<UnknownAddress>>).value = ToBE(0, WordSize)

(* C14: for an Indirect entry whose encoding spans more than one slot, a *)
(* get after the set returns the value that was set, the variable-length *)
(* fields with their length and content; the head slot holds the encoded *)
(* length, which covers exactly the data slots the set wrote.            *)
C14_StructRoundTrip ==
    (last.op = "set" /\ ~IsDirect(LastEntry.vtype) /\ Len(last.writes) > 1)
        => LET r == GetOf(store, last.entry, last.args)
               n == NumOf(read(store, last.key))
           IN  /\ r.outcome = "ok"
               /\ r.value = last.value
               /\ (n + 31) \div 32 = Len(last.writes) - 1
               /\ LastEntry.vtype = "UserProfile" =>
                     /\ Len(r.value.metadata) = Len(last.value.metadata)
                     /\ Len(r.value.username) = Len(last.value.username)

C14_Witness ==
    /\ last.op = "set"
    /\ nsets = 2
    /\ LastEntry.vtype = "UserProfile"
    /\ LastEntry.path = <<>>
    /\ last.value = Alice
    /\ GetOf(store, last.entry, last.args).value.metadata = Bytes33

(* the bytes an Indirect get finds stored for the entry it reads: the    *)
(* slot itself for a one-slot type, else as many bytes of the data slots *)
(* as the head slot says                                                 *)
StoredBytes ==
    IF IsStatic(LastEntry.vtype) THEN read(store, last.key)
    ELSE LET n == NumOf(read(store, last.key))
         IN  IF n <= 0 THEN <<>>
             ELSE SubSeq(ReadChunks(store, last.key, Chunks(n)), 1, n)

(* C15: an Indirect get never builds a value from slots that do not have *)
(* the shape of its type: when it returns a value, the stored bytes are  *)
(* the canonical encoding of that value (or nothing was stored);         *)
(* otherwise it ends in ShapeMismatchError and returns no value.         *)
C15_ShapeMismatchSurfaced ==
    (last.op = "get" /\ ~IsDirect(LastEntry.vtype))
        => /\ last.outcome \in {"ok", "ShapeMismatchError"}
           /\ last.outcome = "ok" =>
                 \/ read(store, last.key) = [i \in 1..32 |-> 0]
                 \/ StoredBytes = encode(LastEntry.vtype, last.result)
           /\ last.outcome = "ShapeMismatchError" =>
                 /\ last.result = <<>>
                 /\ \A v \in ValuesOf(LastEntry.vtype) :
                       StoredBytes # encode(LastEntry.vtype, v)

C15_Witness ==
    /\ last.op = "get"
    /\ decls = <<Decl(<<>>, "UserProfile")>>
    /\ last.outcome = "ShapeMismatchError"
    /\ nsets = 0
    /\ StoredBytes = encode("Bytes", Bytes33)

(* C20: a Direct set performs exactly one host write, at the key derived *)
(* from the entry's slot and path; the host storage at every other key   *)
(* is unchanged.                                                         *)
C20_DirectSetOneWrite ==
    [][(/\ last'.op = "set"
        /\ nsets' = nsets + 1
        /\ IsDirect(schema[last'.entry].vtype))
       => LET k == key(schema[last'.entry].slot, schema[last'.entry].path, last'.args)
          IN  /\ Len(last'.writes) = 1
              /\ last'.writes[1].key = k
              /\ DOMAIN store' = DOMAIN store \cup {k}
              /\ store'[k] = last'.writes[1].value
              /\ \A x \in DOMAIN store' : x # k => store'[x] = store[x]]_vars

C20_Witness ==
    /\ last.op = "set"
    /\ nsets = 2
    /\ IsDirect(LastEntry.vtype)
    /\ LastEntry.path = <<"mapA", "arr">>
    /\ Cardinality(DOMAIN store) > 2

(* C16: a storage error (ShapeMismatchError, EncodingOverflowError) fails *)
(* the invocation it occurs in; all a failed invocation does is abort,    *)
(* and the abort leaves the host storage as it was when the invocation    *)
(* started, which is what the next invocation starts from.                *)
C16_ErrorAbortsAndDiscards ==
    [][/\ (last' # last /\ last'.outcome \in {"ShapeMismatchError", "EncodingOverflowError"})
             => status' = "failed"
       /\ status = "failed" => (status' = "aborted" /\ store' = checkpoint)
       /\ status \in {"running", "writing", "failed"} => checkpoint' = checkpoint
       /\ status' = "running" /\ status # "running" /\ status # "writing"
             => (checkpoint' = store /\ store' = store)]_vars

C16_Witness ==
    /\ status = "aborted"
    /\ last.outcome = "ShapeMismatchError"
    /\ ninv = 2
    /\ nsets = 2
    /\ store = checkpoint
    /\ Cardinality(DOMAIN store) = 1

(* C18: between invocations the host storage never holds part of a       *)
(* multi-slot Indirect write: it is the storage the last invocation       *)
(* started from, or that storage with every set of the invocation applied *)
(* whole; of the slots of the invocation's last multi-slot set (head and  *)
(* continuation slots), all hold what the set wrote or all hold what they *)
(* held before, also when the invocation aborted between two of them.     *)
C18_NoPartialCommit ==
    status \in {"idle", "committed", "aborted"}
        => /\ store = checkpoint \/ store = intent
           /\ status = "committed" => store = intent
           /\ (last.op = "set" /\ Len(last.writes) > 1)
                 => \/ \A i \in 1..Len(last.writes) :
                          read(store, last.writes[i].key) = last.writes[i].value
                    \/ \A i \in 1..Len(last.writes) :
                          read(store, last.writes[i].key)
                             = read(checkpoint, last.writes[i].key)

C18_Witness ==
    /\ status = "aborted"
    /\ last.op = "set"
    /\ LastEntry.vtype = "UserProfile"
    /\ Len(pending) > 0
    /\ Len(pending) < Len(last.writes) - 1
    /\ store = checkpoint
    /\ DOMAIN store # {}

(* C21: an Indirect set whose encoded value fits one slot issues the one *)
(* host write a Direct set of the same content issues (same key, same    *)
(* slot content); a longer encoding is written to the derived key and    *)
(* the keys after it (key + 1, key + 2, ...), one host write per slot,   *)
(* the slot at the derived key holding the encoded length.               *)
C21_IndirectLayout ==
    (last.op = "set" /\ last.outcome = "ok" /\ ~IsDirect(LastEntry.vtype))
        => LET enc == encode(LastEntry.vtype, last.value)
               ws == last.writes
           IN  IF Len(enc) <= 32
               THEN /\ Len(ws) = 1
                    /\ ws[1].key = last.key
                    /\ ws[1].value = [j \in 1..(32 - Len(enc)) |-> 0] \o enc
                    /\ LastEntry.vtype = "Flag" =>
                          ws = DirectWrites(last.key, "bool", last.value.is_verified)
                    /\ read(store, last.key) = ws[1].value
               ELSE /\ Len(ws) = 1 + (Len(enc) + 31) \div 32
                    /\ ws[1].key = last.key
                    /\ NumOf(ws[1].value) = Len(enc)
                    /\ \A i \in 2..Len(ws) :
                          /\ ws[i].key = AddWord(last.key, ToBE(i - 1, 32))
                          /\ ws[i].value =
                                [j \in 1..32 |-> IF (i - 2) * 32 + j <= Len(enc)
                                                 THEN enc[(i - 2) * 32 + j] ELSE 0]
                    /\ \A i, j \in 1..Len(ws) : ws[i].key = ws[j].key => i = j
                    /\ \A i \in 1..Len(ws) : read(store, ws[i].key) = ws[i].value

C21_Witness ==
    /\ last.op = "set"
    /\ nsets = 2
    /\ LastEntry.vtype = "Flag"
    /\ last.value = [is_verified |-> TRUE]
    /\ Len(last.writes) = 1
    /\ \E k \in DOMAIN store : k = AddWord(last.key, ToBE(3, 32))

(* C22: get and key never write: a call of get or key, for every entry  *)
(* and key path, in every reachable state, issues no host write and     *)
(* leaves the whole host storage as it was; only set writes.            *)
C22_GetAndKeyDoNotWrite ==
    [][(last'.op \in {"get", "key"})
       => /\ store' = store
          /\ DOMAIN store' = DOMAIN store
          /\ last'.writes = <<>>]_vars

C22_Witness ==
    /\ last.op = "get"
    /\ nsets = 1
    /\ LastEntry.vtype = "UserProfile"
    /\ last.outcome = "ok"
    /\ last.result = ZeroValue("UserProfile")
    /\ last.key \notin DOMAIN store
    /\ store # EmptyStore

RECURSIVE RippleCarry(_, _, _)
(* the carry leaving byte i when a and b are added byte by byte from the *)
(* last byte up                                                          *)
RippleCarry(a, b, i) ==
    IF i > 32 THEN 0 ELSE (a[i] + b[i] + RippleCarry(a, b, i + 1)) \div 256

(* C23: every StorageKey handed to the host is an unsigned integer in   *)
(* 0 .. 2^256 - 1 (32 bytes); the key of an array element is            *)
(* (keccak256(...) + i) mod 2^256: the sum of the digest and the index  *)
(* byte by byte, the carry out of the first byte dropped, so a sum past *)
(* 2^256 wraps to a 256-bit key.                                        *)
C23_ArrayKeyWraps ==
    \A h \in Digests :
        /\ \A k \in DOMAIN store \cup {last.key} :
              /\ Len(HostKey(k, h)) = 32
              /\ \A i \in 1..32 : HostKey(k, h)[i] \in 0..255
        /\ (/\ last.op \in {"key", "set"}
            /\ LastEntry.path # <<>>
            /\ LastEntry.path[Len(LastEntry.path)] = "arr")
              => LET i == last.args[Len(last.args)]
                 IN  /\ last.key.pre # <<>>
                     /\ \A b \in 1..32 :
                           HostKey(last.key, h)[b]
                               = (h[b] + i[b] + RippleCarry(h, i, b + 1)) % 256
                     /\ last.op = "set" => last.writes[1].key = last.key

C23_Witness ==
    /\ last.op = "key"
    /\ nsets = 1
    /\ LastEntry.path = <<"arr">>
    /\ LastEntry.slot = U(5)
    /\ last.args = <<[b \in 1..32 |-> 255]>>
    /\ RippleCarry(ToBE(1, 32), last.args[1], 1) = 1
    /\ HostKey(last.key, ToBE(1, 32)) = [b \in 1..32 |-> 0]

(* C24: entries are isolated from each other: a set on one declared     *)
(* entry leaves the result of get on every other declared entry, at     *)
(* every key path, as it was; this includes an Indirect value entry     *)
(* whose encoding takes several slots and the value entry declared      *)
(* right after it.                                                      *)
C24_EntriesIsolated ==
    [][(last'.op = "set" /\ nsets' = nsets + 1)
       => \A e2 \in 1..Len(schema) :
             e2 # last'.entry
                => \A b \in ProbeArgsFor(schema[e2].path) :
                      GetOf(store', e2, b) = GetOf(store, e2, b)]_vars

(* C25: within one dynamic-array entry, set(i, v) leaves the result of   *)
(* get(j) as it was for every index j other than i, for Direct element   *)
(* types and for Indirect element types whose encoding takes several     *)
(* consecutive slots from keccak256(pad32(slot)) + i on.                 *)
C25_ElementsIsolated ==
    [][(/\ last'.op = "set"
        /\ nsets' = nsets + 1
        /\ schema[last'.entry].path = <<"arr">>)
       => \A j \in ProbeArgsFor(<<"arr">>) :
             j # last'.args
                => GetOf(store', last'.entry, j) = GetOf(store, last'.entry, j)]_vars

(* C26: for an Indirect entry, a set of a value whose encoding is       *)
(* shorter than that of the value stored before still round-trips: get  *)
(* returns the shorter value, and the data slots left over from the     *)
(* longer value, which the set did not write, do not change the result. *)
C26_ShorterOverwrite ==
    [][(/\ last'.op = "set"
        /\ nsets' = nsets + 1
        /\ ~IsDirect(schema[last'.entry].vtype)
        /\ last'.key \in DOMAIN store
        /\ GetOf(store, last'.entry, last'.args).outcome = "ok"
        /\ Len(encode(schema[last'.entry].vtype,
                       GetOf(store, last'.entry, last'.args).value))
              > Len(encode(schema[last'.entry].vtype, last'.value)))
       => LET written == {last'.writes[i].key : i \in 1..Len(last'.writes)}
              kept == [k \in written |-> store'[k]]
          IN  /\ GetOf(store', last'.entry, last'.args)
                    = [outcome |-> "ok", value |-> last'.value]
              /\ GetOf(kept, last'.entry, last'.args)
                    = GetOf(store', last'.entry, last'.args)
              /\ \A k \in DOMAIN store \ written : store'[k] = store[k]]_vars

C26_Witness ==
    /\ last.op = "set"
    /\ nsets = 2
    /\ LastEntry.vtype = "UserProfile"
    /\ LastEntry.path = <<"mapA">>
    /\ last.value = ZeroValue("UserProfile")
    /\ AddWord(last.key, ToBE(Len(last.writes), 32)) \in DOMAIN store
    /\ read(store, AddWord(last.key, ToBE(Len(last.writes), 32))) # [i \in 1..32 |-> 0]
    /\ GetOf(store, last.entry, last.args).value = last.value

(* the balance of holder a in the host storage st *)
BalanceIn(st, a) == GetOf(st, BalanceEntry, <<a>>).value

RECURSIVE SupplyFrom(_, _)
(* the balances bal[i], bal[i + 1], ... added up as U256, and whether *)
(* every addition stayed below 2^256                                  *)
SupplyFrom(bal, i) ==
    IF i > Len(bal) THEN [sum |-> Zeros(WordSize), fits |-> TRUE]
    ELSE LET r == SupplyFrom(bal, i + 1)
         IN  [sum |-> AddU256(bal[i], r.sum),
              fits |-> r.fits /\ CarryInto(bal[i], r.sum, 0) = 0]

(* the balances of all holders in st, added up *)
SupplyIn(st) == SupplyFrom([i \in 1..Len(Holders) |-> BalanceIn(st, Holders[i])], 1)

RECURSIVE RippleBorrow(_, _, _)
(* the borrow leaving byte i when b is subtracted from a byte by byte *)
(* from the last byte up: 1 at byte 1 exactly when a < b              *)
RippleBorrow(a, b, i) ==
    IF i > 32 THEN 0
    ELSE IF a[i] - RippleBorrow(a, b, i + 1) < b[i] THEN 1 ELSE 0

(* C27: transfer conserves the total: whatever the caller, the recipient *)
(* (the caller included) and the amount, the sum of Balance over all     *)
(* addresses is after the call what it was before, and stays a 256-bit   *)
(* number; a successful transfer to oneself leaves the caller's balance  *)
(* as it was.                                                            *)
C27_TransferConservesTotal ==
    [][LET before == SupplyIn(store)
           after == SupplyIn(store')
       IN  /\ after.sum = before.sum
           /\ before.fits
           /\ after.fits
           /\ (last'.op = "transfer" /\ last'.result /\ last'.args[1] = last'.args[2])
                 => BalanceIn(store', last'.args[1]) = BalanceIn(store, last'.args[1])]_vars

C27_Witness ==
    /\ last.op = "transfer"
    /\ last.result
    /\ last.args = <<Address(0), Address(0)>>
    /\ last.value = ToBE(40, 32)
    /\ Len(last.writes) = 2
    /\ last.writes[1].value = ToBE(20, 32)
    /\ BalanceIn(store, Address(0)) = ToBE(60, 32)
    /\ BalanceIn(store, Address(1)) = ToBE(40, 32)

(* C28: a transfer of more than the caller's balance returns false and  *)
(* writes nothing, every Balance entry is after the call what it was    *)
(* before; transfer returns true only when the caller's balance was at  *)
(* least the amount.                                                    *)
C28_TransferInsufficient ==
    [][(last'.op = "transfer")
       => LET short == RippleBorrow(BalanceIn(store, last'.args[1]), last'.value, 1) = 1
          IN  /\ last'.result = ~short
              /\ short =>
                    /\ last'.writes = <<>>
                    /\ store' = store
                    /\ \A i \in 1..Len(Holders) :
                          BalanceIn(store', Holders[i]) = BalanceIn(store, Holders[i])]_vars

C28_Witness ==
    /\ last.op = "transfer"
    /\ ~last.result
    /\ last.args = <<Address(1), Address(2)>>
    /\ last.value = ToBE(100, 32)
    /\ BalanceIn(store, Address(1)) = ToBE(40, 32)
    /\ last.writes = <<>>

====
